---- MODULE Spec2Model ----
(***************************************************************************)
(* Metronome (src/src/components/Metronome.jsx): the React component's     *)
(* state and refs, the Tone.js transport, loop, Draw queue and flash-clear *)
(* timers it drives, and the handlers and effects that change them.        *)
(*                                                                         *)
(* A handler and the React commit it causes (render, then the effects whose*)
(* dependencies changed, in declaration order) are one action.  Transport  *)
(* time is counted in ticks, TicksPerBeat per quarter note; the loop       *)
(* callback is due every TicksPerBeat ticks from position 0.               *)
(***************************************************************************)
EXTENDS Integers, Sequences, FiniteSets, TLC

\* ---------------------------------------------------------------- bounds
TicksPerBeat == 2      \* resolution of the modelled transport position
MaxBeats     == 3      \* a run is followed for at most this many beats
MaxPending   == 2      \* Draw callbacks and flash-clear timers outstanding
MaxWaiters   == 2      \* play taps awaiting one audio initialisation
MaxAttempts  == 2      \* promise objects that can exist at once
MaxFrameLag  == 1      \* ticks the transport may run ahead of the last frame

MaxPos == TicksPerBeat * MaxBeats

\* ------------------------------------------------------ program constants
MinBpm           == 40
MaxBpm           == 200
MinNumerator     == 1
MaxNumerator     == 12
InitialBpm       == 120
InitialNumerator == 4

\* Inputs: an arrow button passes +1 or -1, a drag passes any integer number
\* of steps.  The sets hold steps that stay in range and steps that overshoot
\* either bound.
BpmDeltas       == {-80, 80}
NumeratorDeltas == {-5, 11}
Controls        == {"bpm", "numerator"}

VARIABLES
    \* React state (useState)
    isPlaying, audioReady, audioError, bpm, numerator,
    beatActive, currentBeat, isDownbeat,
    \* refs (useRef)
    synthRef, accentSynthRef, loopRef, beatCountRef, audioInitPromiseRef,
    isDraggingRef,
    \* promises and the handlePlayToggle calls suspended on them
    promise, waiters,
    \* Tone.js / platform
    ctxState, transportState, transportTicks, transportBpm, loopNext,
    drawQueue, timers,
    \* animation: the ref holding the last frame request id (non-null or not),
    \* whether the platform has an uncancelled frame request, the marker
    \* position (useState)
    animationFrameRef, frameRequested, lightPosition,
    \* history (not program state): the tick whose flash is showing, the beat
    \* indices computed and the tones triggered by the ticks of the current
    \* run (tickLog, clickLog), whether the last
    \* step was a tempo/meter request that its guard dropped, and the
    \* transport position and measure progress read by the last frame of the
    \* current run (frameTicks is -1 before the first frame)
    flashOwner, tickLog, clickLog, requestIgnored, frameTicks, measureProgress,
    \* the number of Tone.Loop objects created and not yet disposed
    liveLoops,
    \* fault history: an exception has left a triggerBeat call uncaught
    tickEscaped,
    \* unlockMobileAudio(audioContext) (src/vite.config.js): where the call
    \* is, the state of the context it was given, the promises of
    \* playSilentHtmlAudio and playSilentBuffer, the two inner withTimeout
    \* races, the destructured results, the promise of resume(), the pending
    \* setTimeout timers (due time, 0 = not set), the time in ms, the value
    \* returned
    unlockPc, audioContext, htmlAudio, silentBuffer, innerHtml, innerBuffer,
    htmlAudioResult, bufferResult, resumePromise, unlockTimers, clock,
    unlockResult,
    \* unlock history: calls made, when the current call started, whether it
    \* entered its catch block, the context state when the first call ended
    calls, callStart, caught, contextAfterFirst,
    \* two sessions of the metronome that differ in the denominator only: the
    \* tempo and beats per measure they share, and per session the
    \* denominator, whether it plays, its transport position, the loop's next
    \* tick, beatCountRef, the tick times and beat indices so far, and the
    \* measure progress and marker position of the last frame
    sessionBpm, sessionNumerator, sessions,
    \* the geometry functions applied on their own: the sides given to
    \* getPolygonPoints, the points and their angles once computed, and the
    \* progress step and result of the last interpolatePosition call
    polygon,
    \* one useScrollControl with the control enabled: isDraggingRef,
    \* startYRef, accumulatedDeltaRef, and of the last pointer move the
    \* totalDelta it computed and the steps it passed to onChange
    drag

vars == <<isPlaying, audioReady, audioError, bpm, numerator,
          beatActive, currentBeat, isDownbeat,
          synthRef, accentSynthRef, loopRef, beatCountRef, audioInitPromiseRef,
          isDraggingRef, promise, waiters,
          ctxState, transportState, transportTicks, transportBpm, loopNext,
          drawQueue, timers, animationFrameRef, frameRequested, lightPosition,
          flashOwner, tickLog, clickLog, requestIgnored, frameTicks, measureProgress,
          liveLoops, tickEscaped,
          unlockPc, audioContext, htmlAudio, silentBuffer, innerHtml, innerBuffer,
          htmlAudioResult, bufferResult, resumePromise, unlockTimers, clock,
          unlockResult, calls, callStart, caught, contextAfterFirst,
          sessionBpm, sessionNumerator, sessions, polygon, drag>>

\* What the "Setup loop" effect writes.
loopEffectVars == <<loopRef, loopNext, beatCountRef, transportState,
                    transportTicks, currentBeat, beatActive, isDownbeat,
                    flashOwner, tickLog, clickLog, liveLoops>>
initVars     == <<audioInitPromiseRef, promise, waiters>>
audioVars    == <<ctxState, synthRef, accentSynthRef>>
callbackVars == <<drawQueue, timers>>
\* What unlockMobileAudio and the platform events it waits for write.
unlockVars   == <<unlockPc, audioContext, htmlAudio, silentBuffer, innerHtml,
                  innerBuffer, htmlAudioResult, bufferResult, resumePromise,
                  unlockTimers, clock, unlockResult, calls, callStart, caught,
                  contextAfterFirst>>
\* What no handler, effect or callback of the component writes.
timingVars   == <<sessionBpm, sessionNumerator, sessions>>
pureVars     == <<polygon, drag>>
sideVars     == <<tickEscaped, unlockVars, timingVars, pureVars>>
\* What the animation loop and its effect write.
animVars     == <<animationFrameRef, frameRequested, lightPosition,
                  frameTicks, measureProgress>>
\* The component's own state.
componentVars == <<isPlaying, audioReady, audioError, bpm, numerator,
                   isDraggingRef, loopEffectVars, initVars, audioVars,
                   callbackVars, animVars, requestIgnored, transportBpm,
                   tickEscaped>>

Min(a, b) == IF a < b THEN a ELSE b
Max(a, b) == IF a > b THEN a ELSE b

\* -------------------------------------------------- rationals and geometry
\* Times and progress are exact rationals <<numerator, denominator>> with a
\* positive denominator; Reduce gives lowest terms.
RECURSIVE GCD(_, _)
GCD(a, b) == IF b = 0 THEN a ELSE GCD(b, a % b)
Reduce(q) == LET g == GCD(q[1], q[2]) IN <<q[1] \div g, q[2] \div g>>
RatEq(q, r) == q[1] * r[2] = r[1] * q[2]
\* q % r and q / r of JavaScript for q >= 0, r > 0
RatMod(q, r) == <<(q[1] * r[2]) % (r[1] * q[2]), q[2] * r[2]>>
RatDiv(q, r) == <<q[1] * r[2], q[2] * r[1]>>
Floor(q) == q[1] \div q[2]

SecondsPerMinute == 60

\* Points of the SVG, kept symbolic (the vertex coordinates are cos/sin
\* values): the centre {center, center}; the top of the shape {center,
\* center - shapeRadius}, which is vertex 0 of every polygon and the initial
\* lightPosition; vertex i of the n-gon; the point at fraction p of the
\* horizontal line from center - shapeRadius to center + shapeRadius.
Center == <<"center">>
Top == <<"top">>
LinePoint(p) == <<"line", Reduce(p)>>
LineStart == LinePoint(<<0, 1>>)
LineEnd == LinePoint(<<1, 1>>)

\* getPolygonPoints(sides, radius, centerX, centerY): points[i] at angle
\* -PI/2 + 2*PI*i/sides
getPolygonPoints(sides) ==
    [i \in 0..(sides - 1) |-> IF i = 0 THEN Top ELSE <<"vertex", sides, i>>]

\* start + (end - start) * t
Lerp(start, end, t) ==
    IF t[1] = 0 THEN start ELSE <<"edge", start, end, Reduce(t)>>

\* interpolatePosition(points, progress), points a function on 0..(n - 1).
\* The mutant takes the vertex after the next as the end of the edge.
MutInterpolateEndSkipsVertex(points, totalSegments, progress) ==
    LET segmentProgress == <<progress[1] * totalSegments, progress[2]>>
        currentSegment == Floor(segmentProgress) % totalSegments
        segmentT == <<segmentProgress[1] - Floor(segmentProgress) * progress[2],
                      progress[2]>>
    IN Lerp(points[currentSegment], points[(currentSegment + 2) % totalSegments],
            segmentT)
interpolatePosition(points, totalSegments, progress) ==
    LET segmentProgress == <<progress[1] * totalSegments, progress[2]>>
        currentSegment == Floor(segmentProgress) % totalSegments
        segmentT == <<segmentProgress[1] - Floor(segmentProgress) * progress[2],
                      progress[2]>>
        startPoint == points[currentSegment]
        endPoint == points[(currentSegment + 1) % totalSegments]
    IN Lerp(startPoint, endPoint, segmentT)

\* Where the vertex markers (beat dots) are drawn for n >= 2: the two ends of
\* the line for two beats, the polygon's vertices otherwise.
DotPosition(n, index) ==
    IF n = 2 THEN (IF index = 0 THEN LineStart ELSE LineEnd)
    ELSE getPolygonPoints(n)[index]

\* ------------------------------------------------------------------ Init
TimerNames == {"htmlFallback", "bufferFallback", "htmlTimeout", "bufferTimeout",
               "outerTimeout", "resumeTimeout"}
NoTimers == [t \in TimerNames |-> 0]

\* No unlockMobileAudio call has been made on a context in the given state.
UnlockIdle(state) ==
    /\ unlockPc = "idle" /\ audioContext = state
    /\ htmlAudio = "none" /\ silentBuffer = "none"
    /\ innerHtml = "none" /\ innerBuffer = "none"
    /\ htmlAudioResult = "none" /\ bufferResult = "none"
    /\ resumePromise = "none" /\ unlockTimers = NoTimers /\ clock = 0
    /\ unlockResult = "none"
    /\ calls = 0 /\ callStart = 0 /\ caught = FALSE
    /\ contextAfterFirst = "none"

ComponentInit ==
    /\ isPlaying = FALSE /\ audioReady = FALSE /\ audioError = FALSE
    /\ bpm = InitialBpm /\ numerator = InitialNumerator
    /\ beatActive = FALSE /\ currentBeat = 0 /\ isDownbeat = FALSE
    /\ synthRef = FALSE /\ accentSynthRef = FALSE /\ loopRef = FALSE
    /\ liveLoops = 0
    /\ beatCountRef = 0 /\ audioInitPromiseRef = 0
    /\ isDraggingRef = [c \in Controls |-> FALSE]
    /\ promise = [i \in 1..MaxAttempts |-> "free"]
    /\ waiters = <<>>
    /\ ctxState = "suspended"
    /\ transportState = "stopped" /\ transportTicks = 0
    /\ transportBpm = InitialBpm /\ loopNext = 0
    /\ drawQueue = <<>> /\ timers = {}
    /\ animationFrameRef = FALSE /\ frameRequested = FALSE
    /\ lightPosition = Top
    /\ flashOwner = 0 /\ tickLog = <<>> /\ clickLog = <<>>
    /\ requestIgnored = FALSE
    /\ frameTicks = -1 /\ measureProgress = <<0, 1>>
    /\ tickEscaped = FALSE

\* A session before it is started: useState({ numerator, denominator: 4 })
InitialDenominator == 4
SessionNames == {"A", "B"}
IdleSession == [denominator |-> InitialDenominator, playing |-> FALSE,
                ticks |-> 0, loopNext |-> 0, beatCountRef |-> 0,
                tickTimes |-> <<>>, beats |-> <<>>,
                measureProgress |-> <<0, 1>>, lightPosition |-> "none"]
TimingIdle(tempo, n) ==
    /\ sessionBpm = tempo
    /\ sessionNumerator = n
    /\ sessions = [s \in SessionNames |-> IdleSession]

\* getPolygonPoints has not been called for a polygon of the given sides.
IdlePolygon(sides) == [sides |-> sides, computed |-> FALSE, points |-> <<>>,
                       angles |-> <<>>, step |-> -1, position |-> "none"]
\* useRef(false), useRef(0), useRef(0)
IdleDrag == [isDragging |-> FALSE, startY |-> 0, accumulatedDelta |-> 0,
             moves |-> 0, emitted |-> FALSE, totalDelta |-> 0, steps |-> 0]
PureIdle == polygon = IdlePolygon(InitialNumerator) /\ drag = IdleDrag

Init == ComponentInit /\ UnlockIdle("suspended")
             /\ TimingIdle(InitialBpm, InitialNumerator) /\ PureIdle

\* --------------------------------------------------------------- settings
\* setBpm((prev) => Math.min(200, Math.max(40, prev + delta)))
MutBpmNoUpperClamp(prev, delta) == Max(MinBpm, prev + delta)
handleBpmChange(prev, delta) == Min(MaxBpm, Max(MinBpm, prev + delta))

\* numerator: Math.min(12, Math.max(1, prev.numerator + delta))
\* The mutant wraps around the range instead of clamping.
MutNumeratorWraps(prev, delta) ==
    MinNumerator + ((prev + delta - MinNumerator) % (MaxNumerator - MinNumerator + 1))
handleNumeratorChange(prev, delta) ==
    Min(MaxNumerator, Max(MinNumerator, prev + delta))

\* ---------------------------------------------------------------- effects
\* "Update BPM" effect: if (audioReady) Tone.Transport.bpm.value = bpm.  The
\* mutant runs it on a bpm change only, not when audioReady turns true.
MutBpmEffectOnBpmChangeOnly(b, ready) ==
    transportBpm' = IF ready /\ b # bpm THEN b ELSE transportBpm
UpdateBpmEffect(b, ready) ==
    transportBpm' = IF ready THEN b ELSE transportBpm

\* First loop event at or after the transport position (loop.start(0), '4n').
NextLoopTime(pos) == ((pos + TicksPerBeat - 1) \div TicksPerBeat) * TicksPerBeat

\* loopRef.current?.dispose(): the loops left alive
Disposed == IF loopRef THEN liveLoops - 1 ELSE liveLoops

\* "Setup loop" effect, branch isPlaying && audioReady
SetupLoopStart ==
    /\ beatCountRef' = 0
    /\ loopRef' = TRUE
    /\ liveLoops' = Disposed + 1
    /\ loopNext' = NextLoopTime(transportTicks)
    /\ transportState' = "started"
    /\ tickLog' = <<>> /\ clickLog' = <<>>
    /\ UNCHANGED <<transportTicks, currentBeat, beatActive, isDownbeat, flashOwner>>

\* Mutants of the else branch: one pauses the transport where it is, one
\* leaves the flash state alone.
MutStopKeepsPosition ==
    /\ loopRef' = FALSE /\ loopNext' = 0 /\ transportState' = "stopped"
    /\ liveLoops' = Disposed
    /\ beatCountRef' = 0 /\ currentBeat' = 0 /\ beatActive' = FALSE
    /\ isDownbeat' = FALSE /\ flashOwner' = 0 /\ tickLog' = <<>> /\ clickLog' = <<>>
    /\ UNCHANGED transportTicks
MutStopKeepsFlash ==
    /\ loopRef' = FALSE /\ loopNext' = 0 /\ transportState' = "stopped"
    /\ liveLoops' = Disposed
    /\ transportTicks' = 0 /\ beatCountRef' = 0 /\ currentBeat' = 0
    /\ tickLog' = <<>> /\ clickLog' = <<>>
    /\ UNCHANGED <<beatActive, isDownbeat, flashOwner>>

\* The else branch without loopRef.current?.dispose(): the reference is
\* dropped and the loop lives on.
MutStopWithoutDispose ==
    /\ loopRef' = FALSE /\ loopNext' = 0 /\ transportState' = "stopped"
    /\ transportTicks' = 0 /\ beatCountRef' = 0 /\ currentBeat' = 0
    /\ beatActive' = FALSE /\ isDownbeat' = FALSE /\ flashOwner' = 0
    /\ tickLog' = <<>> /\ clickLog' = <<>>
    /\ UNCHANGED liveLoops

\* "Setup loop" effect, else branch
SetupLoopStop ==
    /\ loopRef' = FALSE
    /\ liveLoops' = Disposed
    /\ loopNext' = 0
    /\ transportState' = "stopped"
    /\ transportTicks' = 0
    /\ beatCountRef' = 0
    /\ currentBeat' = 0
    /\ beatActive' = FALSE
    /\ isDownbeat' = FALSE
    /\ flashOwner' = 0
    /\ tickLog' = <<>> /\ clickLog' = <<>>

\* The effect runs after a commit in which isPlaying, audioReady or
\* triggerBeat (i.e. timeSignature.numerator) changed.
SetupLoopEffect ==
    IF isPlaying' # isPlaying \/ audioReady' # audioReady \/ numerator' # numerator
    THEN IF isPlaying' /\ audioReady' THEN SetupLoopStart ELSE SetupLoopStop
    ELSE UNCHANGED loopEffectVars

\* -------------------------------------------------------------- animation
\* animate: beatDurationSec = 60 / Tone.Transport.bpm.value;
\* measureDurationSec = beatDurationSec * numerator
MeasureDurationSec(tempo, n) == <<SecondsPerMinute * n, tempo>>

\* Tone.Transport.seconds at a position in ticks under the transport's tempo
TransportSeconds(ticks, tempo) ==
    <<SecondsPerMinute * ticks, TicksPerBeat * tempo>>

\* (transportSeconds % measureDurationSec) / measureDurationSec.  The mutant
\* takes every measure to be InitialNumerator beats long.
MutProgressFixedMeter(ticks, tempo, n) ==
    Reduce(RatDiv(RatMod(TransportSeconds(ticks, tempo),
                         MeasureDurationSec(tempo, InitialNumerator)),
                  MeasureDurationSec(tempo, InitialNumerator)))
MutProgressNoModulo(ticks, tempo, n) ==
    Reduce(RatDiv(TransportSeconds(ticks, tempo), MeasureDurationSec(tempo, n)))
MeasureProgress(ticks, tempo, n) ==
    Reduce(RatDiv(RatMod(TransportSeconds(ticks, tempo),
                         MeasureDurationSec(tempo, n)),
                  MeasureDurationSec(tempo, n)))

\* The position animate gives the marker for a measure progress.  The mutant
\* has no case for one beat per measure and moves the marker along the line.
MutNewPosRoundTrip(n, progress) ==
    IF n = 1 THEN Center
    ELSE IF n = 2
         THEN LinePoint(IF 2 * progress[1] <= progress[2]
                        THEN <<2 * progress[1], progress[2]>>
                        ELSE <<2 * (progress[2] - progress[1]), progress[2]>>)
    ELSE interpolatePosition(getPolygonPoints(n), n, progress)
MutNewPosNoCenterCase(n, progress) ==
    IF n <= 2 THEN LinePoint(progress)
    ELSE interpolatePosition(getPolygonPoints(n), n, progress)
NewPos(n, progress) ==
    IF n = 1 THEN Center
    ELSE IF n = 2 THEN LinePoint(progress)
    ELSE interpolatePosition(getPolygonPoints(n), n, progress)

\* The animation effect's resting position.  The mutant rests at the top for
\* every meter.
MutRestAlwaysTop(n) == Top
RestPosition(n) ==
    IF n >= 3 THEN getPolygonPoints(n)[0]
    ELSE IF n = 2 THEN LineStart
    ELSE Center

\* Animation effect, branch isPlaying && audioReady (after the previous
\* effect's cleanup cancelled any pending frame)
AnimationStart ==
    /\ animationFrameRef' = TRUE
    /\ frameRequested' = TRUE
    /\ frameTicks' = -1 /\ measureProgress' = <<0, 1>>
    /\ UNCHANGED lightPosition

\* Animation effect, else branch.  The mutant sets the resting position but
\* cancels nothing.
MutAnimationStopNoCancel(n) ==
    /\ animationFrameRef' = FALSE
    /\ UNCHANGED frameRequested
    /\ lightPosition' = RestPosition(n)
    /\ frameTicks' = -1 /\ measureProgress' = <<0, 1>>
AnimationStop(n) ==
    /\ animationFrameRef' = FALSE
    /\ frameRequested' = FALSE
    /\ lightPosition' = RestPosition(n)
    /\ frameTicks' = -1 /\ measureProgress' = <<0, 1>>

\* The effect runs after a commit in which isPlaying, audioReady, animate or
\* timeSignature changed; setTimeSignature always stores a new object.
AnimationEffect(timeSignatureSet) ==
    IF isPlaying' # isPlaying \/ audioReady' # audioReady \/ timeSignatureSet
    THEN IF isPlaying' /\ audioReady' THEN AnimationStart
                                      ELSE AnimationStop(numerator')
    ELSE UNCHANGED animVars

\* ------------------------------------------------- tempo / meter requests
\* Arrow button: onClick={() => !isPlaying && handleBpmChange(+-1)}, disabled
\* while isPlaying.
BpmArrowGuard == ~isPlaying

BpmArrow(delta) ==
    /\ bpm' = IF BpmArrowGuard THEN handleBpmChange(bpm, delta) ELSE bpm
    /\ UpdateBpmEffect(bpm', audioReady)
    /\ requestIgnored' = ~BpmArrowGuard
    /\ UNCHANGED <<isPlaying, audioReady, audioError, numerator, isDraggingRef>>
    /\ UNCHANGED <<loopEffectVars, initVars, audioVars, callbackVars>>
    /\ UNCHANGED animVars
    /\ UNCHANGED sideVars

NumeratorArrowGuard == ~isPlaying

NumeratorArrow(delta) ==
    /\ numerator' = IF NumeratorArrowGuard
                    THEN handleNumeratorChange(numerator, delta) ELSE numerator
    /\ requestIgnored' = ~NumeratorArrowGuard
    /\ UNCHANGED <<isPlaying, audioReady, audioError, bpm, transportBpm, isDraggingRef>>
    /\ SetupLoopEffect
    /\ AnimationEffect(NumeratorArrowGuard)
    /\ UNCHANGED <<initVars, audioVars, callbackVars>>
    /\ UNCHANGED sideVars

\* useScrollControl(onChange, disabled = isPlaying)
handlePointerDown(c) ==
    /\ isDraggingRef' = IF isPlaying THEN isDraggingRef
                        ELSE [isDraggingRef EXCEPT ![c] = TRUE]
    /\ requestIgnored' = FALSE
    /\ UNCHANGED <<isPlaying, audioReady, audioError, bpm, numerator, transportBpm>>
    /\ UNCHANGED <<loopEffectVars, initVars, audioVars, callbackVars>>
    /\ UNCHANGED animVars
    /\ UNCHANGED sideVars

handlePointerUp(c) ==
    /\ isDraggingRef[c]
    /\ isDraggingRef' = [isDraggingRef EXCEPT ![c] = FALSE]
    /\ requestIgnored' = FALSE
    /\ UNCHANGED <<isPlaying, audioReady, audioError, bpm, numerator, transportBpm>>
    /\ UNCHANGED <<loopEffectVars, initVars, audioVars, callbackVars>>
    /\ UNCHANGED animVars
    /\ UNCHANGED sideVars

\* if (!isDraggingRef.current || disabled) return; ... onChange(steps)
MutDragIgnoresDisabled(c) == isDraggingRef[c]
DragApplies(c) == isDraggingRef[c] /\ ~isPlaying

handlePointerMove(c, steps) ==
    /\ bpm' = IF c = "bpm" /\ DragApplies(c)
              THEN handleBpmChange(bpm, steps) ELSE bpm
    /\ numerator' = IF c = "numerator" /\ DragApplies(c)
                    THEN handleNumeratorChange(numerator, steps) ELSE numerator
    /\ UpdateBpmEffect(bpm', audioReady)
    /\ requestIgnored' = ~DragApplies(c)
    /\ UNCHANGED <<isPlaying, audioReady, audioError, isDraggingRef>>
    /\ SetupLoopEffect
    /\ AnimationEffect(c = "numerator" /\ DragApplies(c))
    /\ UNCHANGED <<initVars, audioVars, callbackVars>>
    /\ UNCHANGED sideVars

\* ------------------------------------------------------------ play toggle
\* handlePlayToggle, isPlaying: setIsPlaying(false); the commit runs the
\* "Setup loop" effect's else branch.
Stop ==
    /\ isPlaying
    /\ isPlaying' = FALSE
    /\ requestIgnored' = FALSE
    /\ UNCHANGED <<audioReady, audioError, bpm, numerator, transportBpm, isDraggingRef>>
    /\ SetupLoopEffect
    /\ AnimationEffect(FALSE)
    /\ UNCHANGED <<initVars, audioVars, callbackVars>>
    /\ UNCHANGED sideVars

\* handlePlayToggle, not playing; ensureAudioReady: if (audioReady) return true.
\* The mutant returns true whether or not audio is ready.
MutStartWithoutAudio ==
    /\ ~isPlaying
    /\ isPlaying' = TRUE
    /\ requestIgnored' = FALSE
    /\ UNCHANGED <<audioReady, audioError, bpm, numerator, transportBpm, isDraggingRef>>
    /\ SetupLoopEffect
    /\ AnimationEffect(FALSE)
    /\ UNCHANGED <<initVars, audioVars, callbackVars>>
    /\ UNCHANGED sideVars
StartReady ==
    /\ ~isPlaying /\ audioReady
    /\ isPlaying' = TRUE
    /\ requestIgnored' = FALSE
    /\ UNCHANGED <<audioReady, audioError, bpm, numerator, transportBpm, isDraggingRef>>
    /\ SetupLoopEffect
    /\ AnimationEffect(FALSE)
    /\ UNCHANGED <<initVars, audioVars, callbackVars>>
    /\ UNCHANGED sideVars

FreePromises == {i \in 1..MaxAttempts : promise[i] = "free"}
NewPromise   == CHOOSE i \in FreePromises : \A j \in FreePromises : i <= j

\* ensureAudioReady: if (audioInitPromiseRef.current) return it
MutNeverReuse == FALSE
ReuseInFlight == audioInitPromiseRef # 0

\* An initialisation awaits Promise.allSettled([audioContext.resume(),
\* Tone.start()]) with no timeout: it is "pending" when the platform will
\* settle both, "stalled" when one of them never settles.
Unsettled == {"pending", "stalled"}

\* handlePlayToggle, not playing, audio not ready: the call suspends in
\* ensureAudioReady, on the in-flight initialisation if there is one, else on
\* one it starts (setAudioError(false); audioContext.resume(); Tone.start()).
StartRequest ==
    /\ ~isPlaying /\ ~audioReady
    /\ Len(waiters) < MaxWaiters
    /\ IF ReuseInFlight
       THEN /\ promise[audioInitPromiseRef] \in Unsettled
            /\ waiters' = Append(waiters, [awaits |-> audioInitPromiseRef,
                                           first |-> FALSE])
            /\ UNCHANGED <<audioError, audioInitPromiseRef, promise>>
       ELSE /\ FreePromises # {}
            /\ audioError' = FALSE
            /\ \E p \in Unsettled : promise' = [promise EXCEPT ![NewPromise] = p]
            /\ audioInitPromiseRef' = NewPromise
            /\ waiters' = Append(waiters, [awaits |-> NewPromise, first |-> TRUE])
    /\ requestIgnored' = FALSE
    /\ UNCHANGED <<isPlaying, audioReady, bpm, numerator, transportBpm, isDraggingRef>>
    /\ UNCHANGED <<loopEffectVars, audioVars, callbackVars>>
    /\ UNCHANGED animVars
    /\ UNCHANGED sideVars

\* handlePlayToggle when audioInitPromiseRef holds a rejected promise: the
\* await throws out of the handler, nothing is set.
StartRejected ==
    /\ ~isPlaying /\ ~audioReady
    /\ audioInitPromiseRef # 0
    /\ promise[audioInitPromiseRef] = "rejected"
    /\ requestIgnored' = FALSE
    /\ UNCHANGED <<isPlaying, audioReady, audioError, bpm, numerator, transportBpm,
                   isDraggingRef>>
    /\ UNCHANGED <<loopEffectVars, initVars, audioVars, callbackVars>>
    /\ UNCHANGED animVars
    /\ UNCHANGED sideVars

AwaitingOther(id) == LET T(w) == w.awaits # id IN SelectSeq(waiters, T)
Awaiting(id)      == LET T(w) == w.awaits = id IN SelectSeq(waiters, T)
HasFirst(id)      == \E k \in 1..Len(waiters) :
                        waiters[k].awaits = id /\ waiters[k].first

\* The body of the initialisation after Promise.allSettled: whether the
\* attempt ends ready, given the context state the platform left.
InitResult(state) == state = "running"

\* What a resumed handlePlayToggle does with the result:
\* if (!ready) { setAudioError(true); return; }  setIsPlaying(true);
MutResumeIgnoresResult(ready) == TRUE
MutResumePlaysOnFailure(ready) == ~ready
ResumePlaying(ready) == ready

\* The initialisation promise id fulfils.  ok: the platform has the context
\* running after resume()/Tone.start() settled.  Every call suspended on it
\* resumes in the same microtask run; the first one clears the ref.
InitSettle(id, ok) ==
    /\ promise[id] = "pending"
    /\ ctxState' = IF ok THEN "running" ELSE ctxState
    /\ LET ready == InitResult(ctxState')
           resumed == Len(Awaiting(id)) > 0
       IN /\ synthRef' = (synthRef \/ ready)
          /\ accentSynthRef' = (accentSynthRef \/ ready)
          /\ audioReady' = (audioReady \/ ready)
          /\ audioError' = ~ready
          /\ isPlaying' = (isPlaying \/ (resumed /\ ResumePlaying(ready)))
          /\ audioInitPromiseRef' = IF HasFirst(id) THEN 0 ELSE audioInitPromiseRef
    /\ promise' = [promise EXCEPT ![id] = "free"]
    /\ waiters' = AwaitingOther(id)
    /\ requestIgnored' = FALSE
    /\ UNCHANGED <<bpm, numerator, isDraggingRef>>
    /\ UpdateBpmEffect(bpm, audioReady')
    /\ SetupLoopEffect
    /\ AnimationEffect(FALSE)
    /\ UNCHANGED callbackVars
    /\ UNCHANGED sideVars

\* The initialisation promise id rejects: constructing a synth throws (the
\* context check has passed).  firstBuilt: the throw came after synthRef was
\* assigned.  The suspended calls rethrow; the ref keeps the rejected promise.
InitThrow(id, firstBuilt) ==
    /\ promise[id] = "pending"
    /\ ctxState' = "running"
    /\ synthRef' = (synthRef \/ firstBuilt)
    /\ promise' = [promise EXCEPT ![id] = "rejected"]
    /\ waiters' = AwaitingOther(id)
    /\ requestIgnored' = FALSE
    /\ UNCHANGED <<isPlaying, audioReady, audioError, bpm, numerator, transportBpm,
                   isDraggingRef, accentSynthRef, audioInitPromiseRef>>
    /\ UNCHANGED <<loopEffectVars, callbackVars>>
    /\ UNCHANGED animVars
    /\ UNCHANGED sideVars

\* ------------------------------------------------------- ticks and flashes
Pending == Len(drawQueue) + Cardinality(timers)
UsedIds == {drawQueue[k].id : k \in 1..Len(drawQueue)} \cup timers \cup {flashOwner}
FreshId == CHOOSE i \in 1..(MaxPending + 2) : i \notin UsedIds

\* const beatIndex = beatCountRef.current % timeSignature.numerator
MutBeatIndexNoWrap(count, n) == count
MutBeatIndexInitialMeter(count, n) == count % InitialNumerator
BeatIndex(count, n) == count % n

\* The synth a tick triggers: accentSynthRef ('C2') on the first beat,
\* synthRef ('G1') otherwise.  The mutant always triggers synthRef.
MutClickAlwaysOrdinary(isFirstBeat) == "ordinary"
ClickTone(isFirstBeat) == IF isFirstBeat THEN "accent" ELSE "ordinary"

\* triggerBeat(time), called by the Tone.Loop every quarter note
triggerBeat ==
    /\ transportState = "started" /\ loopRef
    /\ loopNext = transportTicks
    /\ loopNext' = loopNext + TicksPerBeat
    /\ IF ~synthRef \/ ~accentSynthRef
       THEN UNCHANGED <<beatCountRef, drawQueue, tickLog, clickLog>>
       ELSE /\ Pending < MaxPending
            /\ LET beatIndex == BeatIndex(beatCountRef, numerator)
                   isFirstBeat == beatIndex = 0
               IN /\ drawQueue' = Append(drawQueue,
                                    [beatIndex |-> beatIndex,
                                     isFirstBeat |-> isFirstBeat,
                                     id |-> FreshId])
                  /\ tickLog' = Append(tickLog, beatIndex)
                  /\ clickLog' = Append(clickLog, ClickTone(isFirstBeat))
            /\ beatCountRef' = beatCountRef + 1
    /\ requestIgnored' = FALSE
    /\ UNCHANGED <<isPlaying, audioReady, audioError, bpm, numerator, transportBpm,
                   isDraggingRef, loopRef, liveLoops, transportState, transportTicks,
                   currentBeat, beatActive, isDownbeat, flashOwner, timers>>
    /\ UNCHANGED <<initVars, audioVars>>
    /\ UNCHANGED animVars
    /\ UNCHANGED sideVars

\* Ticks since the position the last frame of the run read.
FrameLag == transportTicks - Max(frameTicks, 0)

\* The transport advances by one tick; a due loop callback runs first, and
\* the browser keeps rendering frames while the transport moves.
Advance ==
    /\ transportState = "started"
    /\ transportTicks < MaxPos
    /\ loopRef => loopNext > transportTicks
    /\ frameRequested => FrameLag < MaxFrameLag
    /\ transportTicks' = transportTicks + 1
    /\ requestIgnored' = FALSE
    /\ UNCHANGED <<isPlaying, audioReady, audioError, bpm, numerator, transportBpm,
                   isDraggingRef, loopRef, liveLoops, loopNext, beatCountRef, transportState,
                   currentBeat, beatActive, isDownbeat, flashOwner, tickLog, clickLog>>
    /\ UNCHANGED <<initVars, audioVars, callbackVars>>
    /\ UNCHANGED animVars
    /\ UNCHANGED sideVars

\* The callback given to Tone.Draw.schedule runs (oldest first): sets the beat
\* state and starts the flash-clear timer.
DrawCallback ==
    /\ drawQueue # <<>>
    /\ LET e == Head(drawQueue)
       IN /\ currentBeat' = e.beatIndex
          /\ isDownbeat' = e.isFirstBeat
          /\ beatActive' = TRUE
          /\ flashOwner' = e.id
          /\ timers' = timers \cup {e.id}
    /\ drawQueue' = Tail(drawQueue)
    /\ requestIgnored' = FALSE
    /\ UNCHANGED <<isPlaying, audioReady, audioError, bpm, numerator, transportBpm,
                   isDraggingRef, loopRef, liveLoops, loopNext, beatCountRef, transportState,
                   transportTicks, tickLog, clickLog>>
    /\ UNCHANGED <<initVars, audioVars>>
    /\ UNCHANGED animVars
    /\ UNCHANGED sideVars

\* setTimeout(() => { setBeatActive(false); setIsDownbeat(false); }, fadeDuration)
\* The mutant's timer clears the flash only.
MutFlashClearKeepsDownbeat(id) ==
    /\ id \in timers
    /\ timers' = timers \ {id}
    /\ beatActive' = FALSE
    /\ flashOwner' = 0
    /\ requestIgnored' = FALSE
    /\ UNCHANGED <<isPlaying, audioReady, audioError, bpm, numerator, transportBpm,
                   isDraggingRef, loopRef, liveLoops, loopNext, beatCountRef,
                   transportState, transportTicks, currentBeat, isDownbeat,
                   tickLog, clickLog, drawQueue>>
    /\ UNCHANGED <<initVars, audioVars>>
    /\ UNCHANGED animVars
    /\ UNCHANGED sideVars
FlashClear(id) ==
    /\ id \in timers
    /\ timers' = timers \ {id}
    /\ beatActive' = FALSE
    /\ isDownbeat' = FALSE
    /\ flashOwner' = 0
    /\ requestIgnored' = FALSE
    /\ UNCHANGED <<isPlaying, audioReady, audioError, bpm, numerator, transportBpm,
                   isDraggingRef, loopRef, liveLoops, loopNext, beatCountRef, transportState,
                   transportTicks, currentBeat, tickLog, clickLog, drawQueue>>
    /\ UNCHANGED <<initVars, audioVars>>
    /\ UNCHANGED animVars
    /\ UNCHANGED sideVars

\* animate, the requestAnimationFrame callback.  A pending frame always holds
\* the animate of the last commit: the effect's cleanup cancels the older one.
animate ==
    /\ frameRequested
    /\ IF ~isPlaying \/ ~audioReady
       THEN /\ frameRequested' = FALSE
            /\ UNCHANGED <<animationFrameRef, lightPosition, frameTicks,
                           measureProgress>>
       ELSE LET progress == MeasureProgress(transportTicks, transportBpm,
                                            numerator)
            IN /\ lightPosition' = NewPos(numerator, progress)
               /\ animationFrameRef' = TRUE
               /\ frameRequested' = TRUE
               /\ frameTicks' = transportTicks
               /\ measureProgress' = progress
    /\ requestIgnored' = FALSE
    /\ UNCHANGED <<isPlaying, audioReady, audioError, bpm, numerator, transportBpm,
                   isDraggingRef>>
    /\ UNCHANGED <<loopEffectVars, initVars, audioVars, callbackVars>>
    /\ UNCHANGED sideVars

\* triggerBeat when the synth's triggerAttackRelease throws: nothing in
\* triggerBeat catches it, so the exception leaves the callback before the
\* Draw event is scheduled and before beatCountRef++.  The loop has already
\* scheduled its next callback.
triggerBeatThrows ==
    /\ transportState = "started" /\ loopRef
    /\ loopNext = transportTicks
    /\ synthRef /\ accentSynthRef
    /\ loopNext' = loopNext + TicksPerBeat
    /\ tickEscaped' = TRUE
    /\ requestIgnored' = FALSE
    /\ UNCHANGED <<isPlaying, audioReady, audioError, bpm, numerator, transportBpm,
                   isDraggingRef, loopRef, liveLoops, beatCountRef, transportState,
                   transportTicks, currentBeat, beatActive, isDownbeat,
                   flashOwner, tickLog, clickLog>>
    /\ UNCHANGED <<initVars, audioVars, callbackVars, animVars>>
    /\ UNCHANGED <<unlockVars, timingVars, pureVars>>

\* ------------------------------------------------------------------- Next
Next ==
    \/ \E d \in BpmDeltas : BpmArrow(d)
    \/ \E d \in NumeratorDeltas : NumeratorArrow(d)
    \/ \E c \in Controls : handlePointerDown(c)
    \/ \E c \in Controls : handlePointerUp(c)
    \/ \E d \in BpmDeltas : handlePointerMove("bpm", d)
    \/ \E d \in NumeratorDeltas : handlePointerMove("numerator", d)
    \/ Stop
    \/ StartReady
    \/ StartRequest
    \/ StartRejected
    \/ \E id \in 1..MaxAttempts, ok \in BOOLEAN : InitSettle(id, ok)
    \/ \E id \in 1..MaxAttempts, b \in BOOLEAN : InitThrow(id, b)
    \/ triggerBeat
    \/ Advance
    \/ DrawCallback
    \/ \E id \in 1..(MaxPending + 2) : FlashClear(id)
    \/ animate

Spec == Init /\ [][Next]_vars

\* What the platform schedules by itself happens: a promise that will settle
\* settles, a due loop callback, a queued Draw callback and a set timer run,
\* the started transport advances.  User input is under no obligation.
FairSpec ==
    /\ Spec
    /\ WF_vars(\E id \in 1..MaxAttempts, ok \in BOOLEAN : InitSettle(id, ok))
    /\ WF_vars(triggerBeat)
    /\ WF_vars(Advance)
    /\ WF_vars(DrawCallback)
    /\ WF_vars(\E id \in 1..(MaxPending + 2) : FlashClear(id))
    /\ WF_vars(animate)

\* The component on a platform whose synths can throw when triggered.
FaultNext == Next \/ triggerBeatThrows
FaultSpec == Init /\ [][FaultNext]_vars

\* ======================================================= unlockMobileAudio
\* src/vite.config.js.  One action is one task of the event loop (the call, a
\* timer callback, a platform event) together with the promise reactions it
\* causes.  Time moves only when a timer fires, so clock is the least time
\* that can have passed.
MaxCalls == 2          \* unlockMobileAudio calls followed

UNLOCK_TIMEOUT == 500  \* const UNLOCK_TIMEOUT = 500
OuterExtra     == 100  \* UNLOCK_TIMEOUT + 100
FallbackDelay  == 50   \* setTimeout(..., 50) in both play functions

ContextStates == {"null", "suspended", "running", "closed"}
Settled == {"true", "false"}

\* try { ... } catch { ... } of unlockMobileAudio catches what the try block
\* throws.  The mutant lets the exception through.
MutTryCatchesNothing == FALSE
TryCatches == TRUE

\* What resume() leaves the context in: running when its promise fulfils,
\* as it was when it rejects.  The mutant has a failed resume close it.
MutResumeCloses(state, ok) == IF ok THEN "running" ELSE "closed"
ResumedState(state, ok) == IF ok THEN "running" ELSE state

\* withTimeout(promise, ms, false): the promise wins the race if it settles
\* while the race is undecided.
withTimeout(race, promiseState) ==
    IF race = "pending" /\ promiseState \in Settled THEN promiseState ELSE race

\* audioContext && audioContext.state === 'suspended'
NeedsResume(state) == state = "suspended"

\* htmlAudioResult || bufferResult || (audioContext && state === 'running')
Success(h, b, state) ==
    IF h = "true" \/ b = "true" THEN "true"
    ELSE IF state = "null" THEN "null"
    ELSE IF state = "running" THEN "true" ELSE "false"

\* audioContext?.state === 'running'
CatchResult(state) == IF state = "running" THEN "true" ELSE "false"

\* The async function returns v.  Timers left over can only resolve promises
\* that are settled or dropped, so they are forgotten.
Return(v, state) ==
    /\ unlockPc' = "returned"
    /\ unlockResult' = v
    /\ unlockTimers' = NoTimers
    /\ contextAfterFirst' = IF calls = 1 THEN state ELSE contextAfterFirst

\* The async function's promise rejects.
Reject(state) ==
    /\ unlockPc' = "rejected"
    /\ unlockResult' = "none"
    /\ unlockTimers' = NoTimers
    /\ contextAfterFirst' = IF calls = 1 THEN state ELSE contextAfterFirst

\* The two play promises are in states h and b, the inner races were ih and
\* ib, the timers T: the races take a settled promise, and when the call
\* awaits Promise.all and both races are decided it goes on to the resume
\* step with their results.
AwaitAll(pc, h, b, ih, ib, T) ==
    LET nih == withTimeout(ih, h)
        nib == withTimeout(ib, b)
        T1 == [t \in TimerNames |->
                 IF \/ t = "htmlFallback" /\ h \in Settled
                    \/ t = "bufferFallback" /\ b \in Settled
                    \/ t = "htmlTimeout" /\ nih \in Settled
                    \/ t = "bufferTimeout" /\ nib \in Settled
                 THEN 0 ELSE T[t]]
    IN /\ htmlAudio' = h /\ silentBuffer' = b
       /\ innerHtml' = nih /\ innerBuffer' = nib
       /\ IF pc = "awaitAll" /\ nih \in Settled /\ nib \in Settled
          THEN /\ unlockPc' = "resumeStep"
               /\ htmlAudioResult' = nih /\ bufferResult' = nib
               /\ unlockTimers' = [T1 EXCEPT !["outerTimeout"] = 0]
          ELSE /\ unlockPc' = pc
               /\ htmlAudioResult' = IF unlockPc = pc THEN htmlAudioResult ELSE "none"
               /\ bufferResult' = IF unlockPc = pc THEN bufferResult ELSE "none"
               /\ unlockTimers' = T1

\* Steps of the async function that follow a settled await without a task in
\* between: no timer or platform event comes before them.
Urgent == unlockPc \in {"resumeStep", "catchStep"}

\* unlockMobileAudio(audioContext) is called: both play functions run their
\* executors and the three timeouts are set.  html: the Audio element throws
\* ("false"), play() returns a promise ("pending") or undefined ("playing",
\* resolved by the 50 ms fallback).  buffer: a null or closed context or a
\* throwing createBuffer/start gives "false", else the source is started.
Call(html, bufferThrows) ==
    /\ unlockPc \in {"idle", "returned", "rejected"}
    /\ calls < MaxCalls
    /\ calls' = calls + 1
    /\ callStart' = clock
    /\ caught' = FALSE
    /\ unlockResult' = "none"
    /\ LET b == IF audioContext \in {"null", "closed"} \/ bufferThrows
                THEN "false" ELSE "started"
           T == [t \in TimerNames |->
                   CASE t = "htmlFallback" -> IF html = "playing"
                                              THEN clock + FallbackDelay ELSE 0
                     [] t = "bufferFallback" -> IF b = "started"
                                                THEN clock + FallbackDelay ELSE 0
                     [] t = "htmlTimeout" -> clock + UNLOCK_TIMEOUT
                     [] t = "bufferTimeout" -> clock + UNLOCK_TIMEOUT
                     [] t = "outerTimeout" -> clock + UNLOCK_TIMEOUT + OuterExtra
                     [] OTHER -> 0]
       IN AwaitAll("awaitAll", html, b, "pending", "pending", T)
    /\ UNCHANGED <<audioContext, resumePromise, clock, contextAfterFirst>>
    /\ UNCHANGED <<componentVars, timingVars, pureVars>>

\* playPromise.then(...): playback started, resolve(true) follows in 50 ms.
HtmlPlayResolves ==
    /\ ~Urgent /\ htmlAudio = "pending"
    /\ AwaitAll(unlockPc, "playing", silentBuffer, innerHtml, innerBuffer,
                [unlockTimers EXCEPT !["htmlFallback"] = clock + FallbackDelay])
    /\ UNCHANGED <<audioContext, resumePromise, clock, unlockResult, calls,
                   callStart, caught, contextAfterFirst>>
    /\ UNCHANGED <<componentVars, timingVars, pureVars>>

\* 'ended' (ok) or 'error' / 'abort' / playPromise.catch (not ok)
HtmlSettles(ok) ==
    /\ ~Urgent /\ htmlAudio \in {"pending", "playing"}
    /\ AwaitAll(unlockPc, IF ok THEN "true" ELSE "false", silentBuffer,
                innerHtml, innerBuffer, unlockTimers)
    /\ UNCHANGED <<audioContext, resumePromise, clock, unlockResult, calls,
                   callStart, caught, contextAfterFirst>>
    /\ UNCHANGED <<componentVars, timingVars, pureVars>>

\* source.onended = () => resolve(true)
BufferEnded ==
    /\ ~Urgent /\ silentBuffer = "started"
    /\ AwaitAll(unlockPc, htmlAudio, "true", innerHtml, innerBuffer,
                unlockTimers)
    /\ UNCHANGED <<audioContext, resumePromise, clock, unlockResult, calls,
                   callStart, caught, contextAfterFirst>>
    /\ UNCHANGED <<componentVars, timingVars, pureVars>>

\* The timer set earliest for now fires.
Due(t) ==
    /\ unlockTimers[t] > 0
    /\ \A u \in TimerNames : unlockTimers[u] > 0 => unlockTimers[t] <= unlockTimers[u]

TimerFires(t) ==
    /\ ~Urgent /\ Due(t)
    /\ clock' = unlockTimers[t]
    /\ LET T == [unlockTimers EXCEPT ![t] = 0]
       IN CASE t = "htmlFallback" ->
                 /\ AwaitAll(unlockPc, "true", silentBuffer, innerHtml,
                             innerBuffer, T)
                 /\ UNCHANGED <<unlockResult, contextAfterFirst>>
            [] t = "bufferFallback" ->
                 /\ AwaitAll(unlockPc, htmlAudio, "true", innerHtml,
                             innerBuffer, T)
                 /\ UNCHANGED <<unlockResult, contextAfterFirst>>
            [] t = "htmlTimeout" ->
                 /\ AwaitAll(unlockPc, htmlAudio, silentBuffer, "false",
                             innerBuffer, T)
                 /\ UNCHANGED <<unlockResult, contextAfterFirst>>
            [] t = "bufferTimeout" ->
                 /\ AwaitAll(unlockPc, htmlAudio, silentBuffer, innerHtml,
                             "false", T)
                 /\ UNCHANGED <<unlockResult, contextAfterFirst>>
            [] t = "outerTimeout" ->
                 \* the outer race resolves with [false, false]
                 /\ unlockPc' = "resumeStep"
                 /\ htmlAudioResult' = "false" /\ bufferResult' = "false"
                 /\ unlockTimers' = T
                 /\ UNCHANGED <<htmlAudio, silentBuffer, innerHtml, innerBuffer,
                                unlockResult, contextAfterFirst>>
            [] t = "resumeTimeout" ->
                 \* the resume race resolves with undefined
                 /\ Return(Success(htmlAudioResult, bufferResult, audioContext),
                           audioContext)
                 /\ UNCHANGED <<htmlAudio, silentBuffer, innerHtml, innerBuffer,
                                htmlAudioResult, bufferResult>>
    /\ UNCHANGED <<audioContext, resumePromise, calls, callStart, caught>>
    /\ UNCHANGED <<componentVars, timingVars, pureVars>>

\* Lines 140-152: resume the context if it is suspended, else return.
\* throws: resume() throws synchronously instead of returning a promise.
ResumeStep(throws) ==
    /\ unlockPc = "resumeStep"
    /\ IF NeedsResume(audioContext)
       THEN IF throws
            THEN /\ caught' = TRUE
                 /\ IF TryCatches
                    THEN /\ unlockPc' = "catchStep"
                         /\ UNCHANGED <<unlockResult, unlockTimers,
                                        contextAfterFirst>>
                    ELSE Reject(audioContext)
                 /\ UNCHANGED resumePromise
            ELSE /\ unlockPc' = "awaitResume"
                 /\ resumePromise' = "pending"
                 /\ unlockTimers' = [unlockTimers EXCEPT
                                       !["resumeTimeout"] = clock + UNLOCK_TIMEOUT]
                 /\ UNCHANGED <<unlockResult, caught, contextAfterFirst>>
       ELSE /\ ~throws
            /\ Return(Success(htmlAudioResult, bufferResult, audioContext),
                      audioContext)
            /\ UNCHANGED <<resumePromise, caught>>
    /\ UNCHANGED <<audioContext, htmlAudio, silentBuffer, innerHtml, innerBuffer,
                   htmlAudioResult, bufferResult, clock, calls, callStart>>
    /\ UNCHANGED <<componentVars, timingVars, pureVars>>

\* Lines 153-163, the catch block: try { await resume() } catch {}, then
\* return audioContext?.state === 'running'.
CatchStep(throws) ==
    /\ unlockPc = "catchStep"
    /\ IF NeedsResume(audioContext)
       THEN IF throws
            THEN /\ Return(CatchResult(audioContext), audioContext)
                 /\ UNCHANGED resumePromise
            ELSE /\ unlockPc' = "catchResume"
                 /\ resumePromise' = "pending"
                 /\ UNCHANGED <<unlockResult, unlockTimers, contextAfterFirst>>
       ELSE /\ ~throws
            /\ Return(CatchResult(audioContext), audioContext)
            /\ UNCHANGED resumePromise
    /\ UNCHANGED <<audioContext, htmlAudio, silentBuffer, innerHtml, innerBuffer,
                   htmlAudioResult, bufferResult, clock, calls, callStart, caught>>
    /\ UNCHANGED <<componentVars, timingVars, pureVars>>

\* The promise of resume() settles: fulfilled (the context is running) or
\* rejected (swallowed by .catch(() => {}) in the try block and by the inner
\* try/catch in the catch block).  A call that no longer awaits it is not affected.
ResumeSettles(ok) ==
    /\ ~Urgent /\ resumePromise = "pending"
    /\ resumePromise' = IF ok THEN "resolved" ELSE "rejected"
    /\ audioContext' = ResumedState(audioContext, ok)
    /\ CASE unlockPc = "awaitResume" ->
              Return(Success(htmlAudioResult, bufferResult, audioContext'),
                     audioContext')
         [] unlockPc = "catchResume" ->
              Return(CatchResult(audioContext'), audioContext')
         [] OTHER ->
              /\ UNCHANGED <<unlockPc, unlockResult, unlockTimers>>
              /\ contextAfterFirst' =
                     IF calls = 1 /\ unlockPc \in {"returned", "rejected"}
                     THEN audioContext' ELSE contextAfterFirst
    /\ UNCHANGED <<htmlAudio, silentBuffer, innerHtml, innerBuffer,
                   htmlAudioResult, bufferResult, clock, calls, callStart, caught>>
    /\ UNCHANGED <<componentVars, timingVars, pureVars>>

UnlockNext ==
    \/ \E html \in {"false", "pending", "playing"}, bufferThrows \in BOOLEAN :
           Call(html, bufferThrows)
    \/ HtmlPlayResolves
    \/ \E ok \in BOOLEAN : HtmlSettles(ok)
    \/ BufferEnded
    \/ \E t \in TimerNames : TimerFires(t)
    \/ \E throws \in BOOLEAN : ResumeStep(throws)
    \/ \E throws \in BOOLEAN : CatchStep(throws)
    \/ \E ok \in BOOLEAN : ResumeSettles(ok)

UnlockInit ==
    /\ ComponentInit
    /\ \E state \in ContextStates : UnlockIdle(state)
    /\ TimingIdle(InitialBpm, InitialNumerator)
    /\ PureIdle
UnlockSpec == UnlockInit /\ [][UnlockNext]_vars

\* ============================================== denominator and timing
\* Two sessions with the same tempo and numerator.  The denominator control
\* (README.md, handleDenominatorChange) is the only input that differs; the
\* tick schedule, the beat index and the marker position are computed as
\* triggerBeat, the Setup loop effect and animate compute them.
MaxSessionTicks == 8       \* transport ticks followed per session
SessionBpms       == {MinBpm, 60, InitialBpm, MaxBpm}
SessionNumerators == {1, 2, 3, InitialNumerator, MaxNumerator}

\* const denominators = [2, 4, 6, 8]
denominators == <<2, 4, 6, 8>>
indexOf(d) == CHOOSE i \in 1..Len(denominators) : denominators[i] = d
handleDenominatorChange(prev, delta) ==
    denominators[Min(Len(denominators), Max(1, indexOf(prev) + delta))]

\* new Tone.Loop(triggerBeat, '4n'): a quarter note whatever the denominator.
\* The mutant takes the denominator as the note value of the beat.
MutLoopIntervalByDenominator(denominator) ==
    (TicksPerBeat * InitialDenominator) \div denominator
LoopInterval(denominator) == TicksPerBeat

\* Scrolling the denominator control; useScrollControl ignores it while the
\* session plays.
DenominatorScroll(s, delta) ==
    /\ ~sessions[s].playing
    /\ sessions' = [sessions EXCEPT ![s].denominator =
                        handleDenominatorChange(@, delta)]
    /\ UNCHANGED <<sessionBpm, sessionNumerator>>
    /\ UNCHANGED <<componentVars, unlockVars, pureVars>>

\* The session is started: the transport starts at 0 with a new loop and
\* beatCountRef = 0.
SessionStart(s) ==
    /\ ~sessions[s].playing
    /\ sessions' = [sessions EXCEPT ![s] =
           [IdleSession EXCEPT !.denominator = sessions[s].denominator,
                               !.playing = TRUE,
                               !.measureProgress =
                                   MeasureProgress(0, sessionBpm,
                                                   sessionNumerator),
                               !.lightPosition =
                                   NewPos(sessionNumerator,
                                          MeasureProgress(0, sessionBpm,
                                                          sessionNumerator))]]
    /\ UNCHANGED <<sessionBpm, sessionNumerator>>
    /\ UNCHANGED <<componentVars, unlockVars, pureVars>>

\* One transport tick of a playing session: a due loop callback runs
\* triggerBeat at the current position, then time moves on and the next
\* frame places the marker.
SessionAdvance(s) ==
    /\ sessions[s].playing
    /\ sessions[s].ticks < MaxSessionTicks
    /\ LET ss == sessions[s]
           due == ss.loopNext = ss.ticks
           now == ss.ticks + 1
       IN sessions' = [sessions EXCEPT ![s] =
              [ss EXCEPT
                 !.ticks = now,
                 !.loopNext = IF due THEN @ + LoopInterval(ss.denominator) ELSE @,
                 !.beatCountRef = IF due THEN @ + 1 ELSE @,
                 !.tickTimes = IF due
                               THEN Append(@, Reduce(TransportSeconds(ss.ticks,
                                                                      sessionBpm)))
                               ELSE @,
                 !.beats = IF due
                           THEN Append(@, BeatIndex(ss.beatCountRef,
                                                    sessionNumerator))
                           ELSE @,
                 !.measureProgress =
                     MeasureProgress(now, sessionBpm, sessionNumerator),
                 !.lightPosition =
                     NewPos(sessionNumerator,
                            MeasureProgress(now, sessionBpm, sessionNumerator))]]
    /\ UNCHANGED <<sessionBpm, sessionNumerator>>
    /\ UNCHANGED <<componentVars, unlockVars, pureVars>>

TimingNext ==
    \/ \E s \in SessionNames, delta \in {-1, 1} : DenominatorScroll(s, delta)
    \/ \E s \in SessionNames : SessionStart(s)
    \/ \E s \in SessionNames : SessionAdvance(s)

TimingInit ==
    /\ ComponentInit
    /\ UnlockIdle("suspended")
    /\ \E tempo \in SessionBpms, n \in SessionNumerators : TimingIdle(tempo, n)
    /\ PureIdle
TimingSpec == TimingInit /\ [][TimingNext]_vars

\* ================================================= polygon geometry
\* getPolygonPoints and interpolatePosition applied to every number of sides
\* and to progress values on a grid of ProgressGrain samples per edge.
ProgressGrain == 2     \* progress samples per polygon edge

\* angle = angleOffset + (2 * Math.PI * i) / sides, in degrees.  The mutant
\* starts at the right (angle 0) instead of the top.
MutPointAngleFromRight(sides, i) == Reduce(<<360 * i, sides>>)
PointAngle(sides, i) == Reduce(<<360 * i - 90 * sides, sides>>)

\* const points = getPolygonPoints(sides, radius, centerX, centerY)
GetPolygonPoints ==
    /\ ~polygon.computed
    /\ polygon' = [polygon EXCEPT
                     !.computed = TRUE,
                     !.points = getPolygonPoints(polygon.sides),
                     !.angles = [i \in DOMAIN getPolygonPoints(polygon.sides) |->
                                   PointAngle(polygon.sides, i)]]
    /\ UNCHANGED <<componentVars, unlockVars, timingVars, drag>>

\* interpolatePosition(points, progress) for the next progress on the grid,
\* starting at 0 and returning to 0 after the last sample below 1.
Interpolate ==
    /\ polygon.computed
    /\ LET samples == polygon.sides * ProgressGrain
           next == (polygon.step + 1) % samples
       IN polygon' = [polygon EXCEPT
                        !.step = next,
                        !.position = interpolatePosition(polygon.points,
                                                         polygon.sides,
                                                         <<next, samples>>)]
    /\ UNCHANGED <<componentVars, unlockVars, timingVars, drag>>

GeometryNext == GetPolygonPoints \/ Interpolate

GeometryInit ==
    /\ ComponentInit
    /\ UnlockIdle("suspended")
    /\ TimingIdle(InitialBpm, InitialNumerator)
    /\ \E sides \in MinNumerator..MaxNumerator : polygon = IdlePolygon(sides)
    /\ drag = IdleDrag
GeometrySpec == GeometryInit /\ [][GeometryNext]_vars

\* ======================================================= drag decoding
\* useScrollControl with the control enabled (disabled = false): pointer
\* positions are multiples of PixelStep pixels.
MaxPointerCells == 4   \* pointer positions 0 .. MaxPointerCells * PixelStep
MaxMoves == 3          \* pointer moves followed per drag
PixelStep == 5
threshold == 10        \* const threshold = 10

PointerYs == {PixelStep * k : k \in 0..MaxPointerCells}

Abs(x) == IF x < 0 THEN -x ELSE x
\* a % b of JavaScript for b > 0: the remainder has the sign of a
JsRem(a, b) == IF a < 0 THEN -((-a) % b) ELSE a % b
\* Math.floor(a / b) for b > 0
FloorDiv(a, b) == a \div b

\* handlePointerDown(e)
DragPointerDown(clientY) ==
    /\ drag' = [IdleDrag EXCEPT !.isDragging = TRUE, !.startY = clientY]
    /\ UNCHANGED <<componentVars, unlockVars, timingVars, polygon>>

\* handlePointerMove(e)
DragPointerMove(clientY) ==
    /\ drag.isDragging
    /\ drag.moves < MaxMoves
    /\ LET deltaY == drag.startY - clientY
           totalDelta == drag.accumulatedDelta + deltaY
           steps == FloorDiv(totalDelta, threshold)
       IN drag' = IF Abs(totalDelta) >= threshold
                  THEN [drag EXCEPT !.startY = clientY,
                                    !.accumulatedDelta = JsRem(totalDelta, threshold),
                                    !.moves = @ + 1,
                                    !.emitted = TRUE,
                                    !.totalDelta = totalDelta,
                                    !.steps = steps]
                  ELSE [drag EXCEPT !.moves = @ + 1, !.emitted = FALSE]
    /\ UNCHANGED <<componentVars, unlockVars, timingVars, polygon>>

\* handlePointerUp(e)
DragPointerUp ==
    /\ drag.isDragging
    /\ drag' = [drag EXCEPT !.isDragging = FALSE]
    /\ UNCHANGED <<componentVars, unlockVars, timingVars, polygon>>

DragNext ==
    \/ \E clientY \in PointerYs : DragPointerDown(clientY)
    \/ \E clientY \in PointerYs : DragPointerMove(clientY)
    \/ DragPointerUp

DragInit ==
    /\ ComponentInit
    /\ UnlockIdle("suspended")
    /\ TimingIdle(InitialBpm, InitialNumerator)
    /\ PureIdle
DragSpec == DragInit /\ [][DragNext]_vars

\* ================================================================ claims
InitialBeatState == currentBeat = 0 /\ ~isDownbeat /\ ~beatActive
InFlight == {i \in 1..MaxAttempts : promise[i] \in Unsettled}

\* C1: while isPlaying is true no step changes bpm or numerator; a tempo or
\* meter request (arrow or drag step) issued while running is dropped.
C1_SettingsImmutableWhileRunning ==
    [][isPlaying => (bpm' = bpm /\ numerator' = numerator)]_vars

\* a request was issued while running and its guard dropped it
C1_Witness == isPlaying /\ requestIgnored

\* C2: within a run each tick's beat index is the previous tick's plus one,
\* modulo the numerator.
C2_BeatIndexSuccession ==
    \A k \in 2..Len(tickLog) : tickLog[k] = (tickLog[k - 1] + 1) % numerator

\* a run has ticked past the end of a measure of more than one beat
C2_Witness == numerator > 1 /\ Len(tickLog) > numerator

\* C3: a start leaves the beat counter and the transport position at 0, they
\* are 0 when the run's first tick fires, and that tick has beat index 0.
C3_RestartFromZero ==
    [][ /\ (~isPlaying /\ isPlaying') =>
              (beatCountRef' = 0 /\ transportTicks' = 0 /\ loopNext' = 0)
        /\ (tickLog = <<>> /\ tickLog' # <<>>) =>
              (beatCountRef = 0 /\ transportTicks = 0 /\ tickLog'[1] = 0) ]_vars

\* the first tick of a later run has fired while a Draw callback of an
\* earlier run's second or later tick is still queued
C3_Witness ==
    /\ isPlaying /\ Len(tickLog) = 1
    /\ Len(drawQueue) = 2 /\ drawQueue[1].beatIndex > 0

\* C4: the step that processes a stop disposes the loop, stops the transport,
\* and resets position, beat counter and BeatState.
C4_StopResets ==
    [][(isPlaying /\ ~isPlaying') =>
          /\ ~loopRef' /\ transportState' = "stopped"
          /\ transportTicks' = 0 /\ beatCountRef' = 0
          /\ currentBeat' = 0 /\ ~isDownbeat' /\ ~beatActive']_vars

\* stopped after a run that had reached at least its second tick
C4_Witness ==
    /\ ~isPlaying /\ audioReady /\ ~loopRef /\ beatCountRef = 0
    /\ drawQueue # <<>> /\ Head(drawQueue).beatIndex > 0

\* C5 (as claimed): from a stop until the first tick of the next run (the beat
\* counter is 0) BeatState is at its initial values: no callback left over
\* from the stopped run changes it.
C5_NoStaleCallbackAfterStop == beatCountRef = 0 => InitialBeatState

\* C6 (as claimed): a flash-clear timer that turns the flash off belongs to
\* the tick whose flash is showing.
C6_ClearScopedToOwnTick ==
    [][\A id \in timers :
          (timers' = timers \ {id} /\ beatActive /\ ~beatActive')
              => flashOwner = id]_vars

\* the step in which an initialisation ends with the context not running
C7_InitFailed ==
    \E id \in 1..MaxAttempts :
        promise[id] = "pending" /\ promise'[id] = "free" /\ ctxState' # "running"

C8_SingleInitInFlight ==
    /\ Cardinality(InFlight) <= 1
    /\ \A i \in InFlight : audioInitPromiseRef = i
    /\ \A k \in 1..Len(waiters) :
          waiters[k].awaits = audioInitPromiseRef /\ waiters[k].awaits \in InFlight

\* two start requests are suspended on the same initialisation
C8_Witness ==
    /\ Len(waiters) = 2 /\ waiters[1].first /\ ~waiters[2].first
    /\ waiters[1].awaits = waiters[2].awaits

\* C9 (as claimed): while a start request is suspended (Starting) no step
\* changes bpm or numerator.
C9_NoChangeWhileStarting ==
    [][waiters # <<>> => (bpm' = bpm /\ numerator' = numerator)]_vars

\* C10: bpm stays in [40, 200] and numerator in [1, 12].
C10_SettingsInRange ==
    /\ bpm \in MinBpm..MaxBpm
    /\ numerator \in MinNumerator..MaxNumerator

\* both settings sit on a bound that only an overshooting request reaches
C10_Witness == bpm = MaxBpm /\ numerator = MinNumerator

\* C11 (as claimed): every start request eventually leaves Starting: a call
\* suspended on the audio initialisation is eventually resumed, also when the
\* platform's resume/start promises never settle.
C11_StartEventuallyResolves == (waiters # <<>>) ~> (waiters = <<>>)

\* C12 (as claimed): when no start is resolving and audio is not ready, the
\* ref is clear, so the next start request runs a fresh initialisation.
C12_FreshAttemptAfterFailure ==
    (~audioReady /\ waiters = <<>>) => audioInitPromiseRef = 0

C14_IndicesFollowCurrentMeter ==
    \A k \in 1..Len(tickLog) :
        tickLog[k] = (k - 1) % numerator /\ tickLog[k] < numerator

\* the meter was changed (from 4, through 12 and 7) to 2 while stopped and
\* the next run has ticked past a measure
C14_Witness == isPlaying /\ numerator = 2 /\ Len(tickLog) > 2

\* C15 (as claimed): the displayed beat index is below the numerator.
C15_CurrentBeatInMeter == currentBeat \in 0..(numerator - 1)

\* C16: tempo and meter alone define musical time on a run.  While playing, a
\* measure lasts numerator * 60 / bpm seconds; a frame that reads the
\* transport at beat k (k * 60 / bpm seconds) computes the measure progress
\* (k mod numerator) / numerator; once tick k has fired its beatIndex is
\* k mod numerator; and a tick is the downbeat exactly when its beatIndex is 0.
C16_TempoAndMeterDefineTime ==
    isPlaying =>
        /\ RatEq(MeasureDurationSec(transportBpm, numerator),
                 <<numerator * SecondsPerMinute, bpm>>)
        /\ \A k \in 0..MaxBeats :
               /\ frameTicks = k * TicksPerBeat =>
                      RatEq(measureProgress, <<k % numerator, numerator>>)
               /\ Len(tickLog) > k => tickLog[k + 1] = k % numerator
        /\ \A j \in 1..Len(drawQueue) :
               drawQueue[j].isFirstBeat <=> drawQueue[j].beatIndex = 0

C16_Witness ==
    /\ isPlaying /\ bpm # InitialBpm /\ numerator = 2
    /\ frameTicks = 3 * TicksPerBeat
    /\ Len(tickLog) = 4
    /\ measureProgress = <<1, 2>>

\* C17: at the instant beat k fires the marker is at dot k: for every meter of
\* two or more beats, a frame that reads the transport at beat k puts the
\* marker where dot k mod numerator is drawn.
C17_MarkerAtDotOnBeat ==
    (isPlaying /\ numerator >= 2) =>
        \A k \in 0..MaxBeats :
            frameTicks = k * TicksPerBeat =>
                lightPosition = DotPosition(numerator, k % numerator)

\* C18: whenever the session is not running the marker is at the resting
\* position of the current meter, the initial state included.
C18_RestPositionWhenStopped ==
    ~isPlaying =>
        /\ numerator >= 3 => lightPosition = getPolygonPoints(numerator)[0]
        /\ numerator = 2 => lightPosition = LineStart
        /\ numerator = 1 => lightPosition = Center

C18_Witness ==
    /\ ~isPlaying /\ audioReady /\ numerator = 2
    /\ lightPosition = LineStart
    /\ drawQueue # <<>>

\* C19: once the session has left Running no animation-frame request is
\* pending, so no later frame computes a marker position from the transport.
C19_NoFrameAfterStop ==
    ~isPlaying => (~frameRequested /\ ~animationFrameRef /\ frameTicks = -1)

C19_Witness ==
    /\ ~isPlaying /\ audioReady /\ ~frameRequested
    /\ timers # {}

\* C20: whenever a run starts the transport tempo equals the bpm setting,
\* including a bpm chosen before the first start.
C20_TempoAppliedAtStart ==
    isPlaying => transportBpm = bpm

C20_Witness ==
    /\ isPlaying /\ bpm # InitialBpm /\ transportBpm = bpm
    /\ ctxState = "running" /\ Len(tickLog) = 1

\* C21: every tick triggers exactly one click, the accented tone when its
\* beatIndex is 0 and the ordinary tone otherwise, and the visual update of a
\* tick sets isDownbeat exactly when its beatIndex is 0, so the downbeat pulse
\* shows on beat 1 only.
C21_OneClickPerTickAccentOnDownbeat ==
    /\ Len(clickLog) = Len(tickLog)
    /\ isPlaying => Len(clickLog) * TicksPerBeat = loopNext
    /\ \A k \in 1..Len(clickLog) :
           /\ clickLog[k] \in {"accent", "ordinary"}
           /\ clickLog[k] = "accent" <=> tickLog[k] = 0
    /\ \A j \in 1..Len(drawQueue) :
           drawQueue[j].isFirstBeat = (drawQueue[j].beatIndex = 0)
    /\ isDownbeat => currentBeat = 0

C21_Witness ==
    /\ isPlaying /\ numerator = 2
    /\ clickLog = <<"accent", "ordinary", "accent">>
    /\ drawQueue = <<>> /\ isDownbeat /\ currentBeat = 0

\* C22 (as claimed): a flash set by a tick is cleared by that tick's own
\* timer, 0.8 of a beat after it was set, unless a stop (the Setup loop
\* effect's reset, which fires no timer) clears it earlier.
C22_FlashClearedByOwnTimerOrStop ==
    [][(beatActive /\ ~beatActive') =>
          \/ timers' = timers
          \/ (flashOwner \in timers /\ flashOwner \notin timers')]_vars

\* C23 (as claimed): an exception thrown by an audio primitive while a tick is
\* processed is caught within the tick: none leaves the tick callback.
C23_TickErrorContained == ~tickEscaped

C25_ReturnsWithinOuterCeiling ==
    unlockPc = "returned" => clock - callStart <= UNLOCK_TIMEOUT + OuterExtra

\* C26: a finished call reports success exactly when the HTML-audio action
\* succeeded, or the buffer action succeeded, or the context is running.
C26_SuccessIffAnyStepSucceeded ==
    unlockPc = "returned" =>
        (unlockResult = "true" <=>
            \/ htmlAudioResult = "true"
            \/ bufferResult = "true"
            \/ audioContext = "running")

\* C27: when one of the two actions counts as failed and the other succeeded,
\* the resume step still runs and the call reports success.
C27_OneFailedStepDoesNotAbort ==
    /\ unlockPc \in {"awaitResume", "catchStep", "catchResume", "returned"}
           => htmlAudioResult \in Settled /\ bufferResult \in Settled
    /\ (/\ unlockPc = "returned"
        /\ {htmlAudioResult, bufferResult} = {"true", "false"})
           => unlockResult = "true"

\* The context states ordered by how usable the context is.
Rank(state) == CASE state = "running" -> 2 [] state = "suspended" -> 1 [] OTHER -> 0

\* C28: calling unlockMobileAudio twice never rejects, and from the end of the
\* first call on the context is never in a worse state than the first call
\* left it in.
C28_SecondCallNeverWorse ==
    /\ calls >= 2 => unlockPc # "rejected"
    /\ contextAfterFirst # "none" => Rank(audioContext) >= Rank(contextAfterFirst)

\* C28 witness: the first call left the context running and the second call
\* has returned with the context still running.
C28_Witness ==
    /\ calls = 2 /\ unlockPc = "returned"
    /\ contextAfterFirst = "running" /\ audioContext = "running"

\* C29: two sessions with the same bpm and numerator and any denominators
\* tick at the same times, one tick every 60/bpm seconds, with the same beat
\* indices, and show the marker at the same position at the same elapsed time.
C29_DenominatorNeverAffectsTiming ==
    \A a, b \in SessionNames :
        LET sa == sessions[a]
            sb == sessions[b]
        IN /\ \A k \in 1..Len(sa.tickTimes) :
                  /\ RatEq(sa.tickTimes[k], <<SecondsPerMinute * (k - 1), sessionBpm>>)
                  /\ sa.beats[k] = (k - 1) % sessionNumerator
           /\ Len(sa.beats) = Len(sa.tickTimes)
           /\ (sa.playing /\ sb.playing /\ sa.ticks = sb.ticks) =>
                  /\ sa.tickTimes = sb.tickTimes
                  /\ sa.beats = sb.beats
                  /\ sa.lightPosition = sb.lightPosition
           /\ sa.playing => Len(sa.tickTimes) = (sa.ticks + TicksPerBeat - 1) \div TicksPerBeat

\* C29 witness: two sessions in three beats per measure, one with
\* denominator 2 and one with denominator 8, both in their second beat.
C29_Witness ==
    /\ sessionNumerator = 3
    /\ sessions["A"].denominator = 2 /\ sessions["B"].denominator = 8
    /\ sessions["A"].ticks = TicksPerBeat + 1 /\ sessions["B"].ticks = TicksPerBeat + 1
    /\ sessions["A"].beats = <<0, 1>> /\ sessions["B"].beats = <<0, 1>>

\* C30: with numerator 1 the marker is at the center whatever the elapsed
\* time, and every tick of a run is beat 0, a downbeat sounded with the
\* accented tone, one tick per beat of 60/bpm seconds.
C30_OneBeatMeterCenterAndAccent ==
    numerator = 1 =>
        /\ lightPosition = Center
        /\ \A k \in 1..Len(tickLog) : tickLog[k] = 0 /\ clickLog[k] = "accent"
        /\ isPlaying /\ audioReady =>
               /\ Len(clickLog) * TicksPerBeat = loopNext
               /\ RatEq(TransportSeconds(loopNext, transportBpm),
                        <<SecondsPerMinute * Len(clickLog), bpm>>)

\* C30 witness: a run in one beat per measure, two accented ticks sounded,
\* the last frame taken in the middle of a beat.
C30_Witness ==
    /\ numerator = 1 /\ isPlaying
    /\ clickLog = <<"accent", "accent">>
    /\ frameTicks % TicksPerBeat # 0
    /\ lightPosition = Center

\* q < r for rationals with positive denominators
RatLess(q, r) == q[1] * r[2] < r[1] * q[2]

\* C31: with numerator 2 the marker is at fraction progress of the line from
\* center - shapeRadius to center + shapeRadius, progress being the part of
\* the two-beat measure that has elapsed; it is at the left end when the
\* progress is 0, and within a measure every frame is to the right of the one
\* before.
C31_TwoBeatSingleTraversal ==
    /\ [](\A s \in SessionNames :
            (sessionNumerator = 2 /\ sessions[s].playing) =>
                LET measureTicks == 2 * TicksPerBeat
                    elapsed == sessions[s].ticks % measureTicks
                IN /\ sessions[s].lightPosition[1] = "line"
                   /\ RatEq(sessions[s].lightPosition[2], <<elapsed, measureTicks>>)
                   /\ elapsed = 0 => sessions[s].lightPosition = <<"line", <<0, 1>>>>)
    /\ [][\A s \in SessionNames :
            (/\ sessionNumerator = 2
             /\ sessions[s].playing /\ sessions'[s].playing
             /\ sessions'[s].ticks > sessions[s].ticks
             /\ sessions'[s].ticks \div (2 * TicksPerBeat)
                    = sessions[s].ticks \div (2 * TicksPerBeat))
            => RatLess(sessions[s].lightPosition[2],
                       sessions'[s].lightPosition[2])]_vars

\* C31 witness: in a two-beat meter one session is three quarters through
\* its first measure and the other has just jumped back to the left end at
\* the start of its second measure.
C31_Witness ==
    /\ sessionNumerator = 2
    /\ sessions["A"].playing /\ sessions["A"].ticks = 2 * TicksPerBeat - 1
    /\ RatEq(sessions["A"].lightPosition[2], <<2 * TicksPerBeat - 1, 2 * TicksPerBeat>>)
    /\ sessions["B"].playing /\ sessions["B"].ticks = 2 * TicksPerBeat
    /\ sessions["B"].lightPosition = <<"line", <<0, 1>>>>

\* C32: the measure progress every frame computes is a fraction in [0, 1):
\* never negative, never 1 or more.
C32_MeasureProgressInUnitInterval ==
    \A s \in SessionNames :
        LET progress == sessions[s].measureProgress
        IN /\ progress[2] > 0
           /\ progress[1] >= 0
           /\ progress[1] < progress[2]

\* C32 witness: at the fastest tempo in a one-beat meter a session is in the
\* middle of its third measure, at progress 1/TicksPerBeat.
C32_Witness ==
    /\ sessionBpm = MaxBpm /\ sessionNumerator = 1
    /\ sessions["A"].playing /\ sessions["A"].ticks = 2 * TicksPerBeat + 1
    /\ RatEq(sessions["A"].measureProgress, <<1, TicksPerBeat>>)

\* C33: for n >= 3 and progress j/(n * ProgressGrain), interpolatePosition
\* returns the point at fraction frac(p * n) of the edge floor(p * n) from
\* vertex k to vertex k + 1 (mod n): vertex 0 exactly at p = 0, vertex k at
\* p = k/n, and across an edge boundary the end of the edge left is the
\* vertex reached and the start of the edge entered.
C33_InterpolationOnEdgesNoJump ==
    /\ [](polygon.sides >= 3 /\ polygon.step >= 0 =>
            LET k == polygon.step \div ProgressGrain
                r == polygon.step % ProgressGrain
            IN /\ k \in 0..(polygon.sides - 1)
               /\ polygon.step = 0 => polygon.position = <<"top">>
               /\ r = 0 => polygon.position = polygon.points[k]
               /\ r # 0 =>
                     /\ Len(polygon.position) = 4
                     /\ polygon.position[1] = "edge"
                     /\ polygon.position[2] = polygon.points[k]
                     /\ polygon.position[3] = polygon.points[(k + 1) % polygon.sides]
                     /\ RatEq(polygon.position[4], <<r, ProgressGrain>>))
    /\ [][(polygon.sides >= 3 /\ polygon.step >= 0 /\ polygon'.step # polygon.step) =>
            /\ (polygon.step % ProgressGrain = ProgressGrain - 1
                    /\ Len(polygon.position) = 4)
                  => polygon.position[3] = polygon'.position
            /\ (polygon.step % ProgressGrain = 0 /\ Len(polygon'.position) = 4)
                  => polygon'.position[2] = polygon.position]_vars

\* C33 witness: on a triangle the last sample before progress 1 lies on the
\* edge from vertex 2 back to vertex 0.
C33_Witness ==
    /\ polygon.sides = 3 /\ polygon.step = 3 * ProgressGrain - 1
    /\ Len(polygon.position) = 4
    /\ polygon.position[2] = <<"vertex", 3, 2>> /\ polygon.position[3] = <<"top">>

\* C34: getPolygonPoints(n, ...) returns exactly n points for every n in
\* 1..12, the i-th at angle -90 + i * 360/n degrees: the first at the top and
\* each next one 360/n further on.
C34_PolygonPointsEvenlySpaced ==
    polygon.computed =>
        /\ DOMAIN polygon.points = 0..(polygon.sides - 1)
        /\ DOMAIN polygon.angles = 0..(polygon.sides - 1)
        /\ Cardinality(DOMAIN polygon.points) = polygon.sides
        /\ polygon.points[0] = <<"top">> /\ polygon.angles[0] = <<-90, 1>>
        /\ \A i \in 0..(polygon.sides - 1) :
              /\ RatEq(polygon.angles[i], <<360 * i - 90 * polygon.sides, polygon.sides>>)
              /\ i > 0 => /\ RatEq(<<polygon.angles[i][1] * polygon.angles[i - 1][2]
                                        - polygon.angles[i - 1][1] * polygon.angles[i][2],
                                      polygon.angles[i][2] * polygon.angles[i - 1][2]>>,
                                    <<360, polygon.sides>>)
                          /\ polygon.points[i] = <<"vertex", polygon.sides, i>>
              /\ \A j \in 0..(polygon.sides - 1) :
                    polygon.points[i] = polygon.points[j] => i = j

\* C34 witness: the twelve points of the 12-gon, 30 degrees apart.
C34_Witness ==
    /\ polygon.computed /\ polygon.sides = MaxNumerator
    /\ polygon.angles[1] = <<-60, 1>>
    /\ Cardinality(DOMAIN polygon.points) = MaxNumerator

\* C35: at most one Tone.Loop is alive at any time, and it is the one
\* loopRef holds: a loop is created only when none is alive, and while the
\* metronome is not playing none is alive.
C35_AtMostOneLoop ==
    /\ liveLoops \in {0, 1}
    /\ loopRef <=> liveLoops = 1
    /\ ~isPlaying => liveLoops = 0
    /\ transportState = "started" => liveLoops = 1

\* C35 witness: a second run has just started (a flash timer of the run
\* before is still pending) with one loop alive.
C35_Witness ==
    /\ isPlaying /\ loopRef /\ liveLoops = 1
    /\ beatCountRef = 0 /\ tickLog = <<>> /\ timers # {}

\* C36: after a pointer move that emits steps, threshold * steps plus the
\* remainder kept in accumulatedDeltaRef equals the accumulated movement
\* totalDelta, whatever the direction of the drag.
C36_StepsAccountForMovement ==
    drag.emitted =>
        threshold * drag.steps + drag.accumulatedDelta = drag.totalDelta

\* C37: while stopped, a step that changes bpm leaves numerator, the session
\* state (isPlaying, audioReady, transport, loop, beat counter) and the beat
\* display (currentBeat, beatActive, isDownbeat) as they are, a step that
\* changes numerator leaves bpm as it is, and the new value is the old one
\* plus the requested delta clamped to the range.
C37_StoppedChangeTouchesOneSetting ==
    [][/\ (~isPlaying /\ bpm' # bpm) =>
             /\ numerator' = numerator
             /\ isPlaying' = isPlaying /\ audioReady' = audioReady
             /\ transportState' = transportState /\ loopRef' = loopRef
             /\ beatCountRef' = beatCountRef
             /\ currentBeat' = currentBeat /\ beatActive' = beatActive
             /\ isDownbeat' = isDownbeat
             /\ \E d \in BpmDeltas : bpm' = Min(MaxBpm, Max(MinBpm, bpm + d))
       /\ (~isPlaying /\ numerator' # numerator) =>
             /\ bpm' = bpm
             /\ isPlaying' = isPlaying /\ audioReady' = audioReady
             /\ \E d \in NumeratorDeltas :
                   numerator' = Min(MaxNumerator, Max(MinNumerator, numerator + d))]_vars

\* C37 witness: stopped after a run, with the tempo lowered to the minimum
\* and the meter raised to the maximum.
C37_Witness ==
    /\ ~isPlaying /\ audioReady
    /\ bpm = MinBpm /\ numerator = MaxNumerator

\* C38: playing implies audioReady, audioReady implies that both synths
\* exist, audioReady once true stays true, and so every tick of a running
\* session sounds a click and advances the beat counter.
C38_PlayingHasSynths ==
    /\ [](/\ isPlaying => audioReady
          /\ audioReady => synthRef /\ accentSynthRef
          /\ isPlaying => Len(clickLog) = beatCountRef)
    /\ [][/\ audioReady => audioReady'
          /\ (isPlaying /\ isPlaying' /\ loopNext' # loopNext) =>
                /\ beatCountRef' = beatCountRef + 1
                /\ Len(clickLog') = Len(clickLog) + 1]_vars

\* C38 witness: a running session whose second tick has sounded.
C38_Witness ==
    /\ isPlaying /\ audioReady /\ synthRef /\ accentSynthRef
    /\ beatCountRef = 2 /\ Len(clickLog) = 2

\* C39: the accent styling is shown only during a flash and only on the
\* first beat.
C39_DownbeatOnlyWithFlashOnBeatZero ==
    isDownbeat => beatActive /\ currentBeat = 0

\* C39 witness: the downbeat flash of the first tick of a run is showing.
C39_Witness ==
    isPlaying /\ isDownbeat /\ beatActive /\ currentBeat = 0 /\ beatCountRef = 1

\* C40: audioError is never true while playing, and never true once audio
\* is ready.
C40_NoErrorWhilePlaying ==
    /\ ~(audioError /\ isPlaying)
    /\ audioReady => ~audioError

\* C40 witness: an initialisation has failed, the error message is showing
\* and the metronome is not playing.
C40_Witness ==
    /\ audioError /\ ~isPlaying /\ ~audioReady
    /\ audioInitPromiseRef = 0 /\ waiters = <<>>

====
